---- MODULE Spec2Model ----
(***************************************************************************)
(* A model of src/src/components/Chat.vue: the chat component that sends   *)
(* user text to the completion service over an EventSource, folds the      *)
(* streamed chunks into the assistant placeholder with smartConcat, and    *)
(* persists the conversation to localStorage.                              *)
(*                                                                         *)
(* JavaScript strings are sequences of UTF-16 code units (numbers), so the *)
(* regular expressions of smartConcat are the ranges the source writes.    *)
(* Positions in `messages` are 1-based here and 0-based in the source:     *)
(* position p here is index p - 1 there.                                   *)
(***************************************************************************)
EXTENDS Integers, Sequences, FiniteSets, TLC

(***************************************************************************)
(* Bounds of the model.                                                    *)
(***************************************************************************)
\* Submits that open a stream plus message events dispatched to onmessage,
\* in one behaviour of Spec.
MaxEvents == 4
\* The same bound in SpecStore.
MaxStoreEvents == 2
\* Calls of localStorage.setItem that throw.
MaxFailures == 1
\* Component instances created on the same page (mount, unmount, mount again).
MaxMounts == 2
\* Readings of Date.now() advance the clock by at most this much in total.
MaxClockAdvance == 1
\* The longest string, in code units, smartConcat is applied to in SpecMerge,
\* the named examples apart.
MaxLen == 2

(***************************************************************************)
(* Strings.                                                                *)
(***************************************************************************)
sUser == <<117, 115, 101, 114>>                               \* 'user'
sAssistant == <<97, 115, 115, 105, 115, 116, 97, 110, 116>>   \* 'assistant'
sDone == <<91, 68, 79, 78, 69, 93>>                           \* '[DONE]'
sPing == <<112, 105, 110, 103>>                               \* 'ping'
sKeepalive == <<107, 101, 101, 112, 97, 108, 105, 118, 101>>  \* 'keepalive'
sHi == <<104, 105>>                                           \* 'hi'
sHel == <<72, 101, 108>>                                      \* 'Hel'
sLoBang == <<108, 111, 33>>                                   \* 'lo!'
sHello == <<72, 101, 108, 108, 111, 33>>                      \* 'Hello!'
sHelLo == <<72, 101, 108, 32, 108, 111, 33>>                  \* 'Hel lo!'
sNiHao == <<20320, 22909>>                                    \* U+4F60 U+597D
sShiJie == <<19990, 30028>>                                   \* U+4E16 U+754C
sHelloWord == <<104, 101, 108, 108, 111>>                     \* 'hello'
sWorld == <<119, 111, 114, 108, 100>>                         \* 'world'
sHiSpace == <<104, 105, 32>>                                  \* 'hi '
sThere == <<116, 104, 101, 114, 101>>                         \* 'there'
sSpaceThere == <<32, 116, 104, 101, 114, 101>>                \* ' there'
sHiThere == <<104, 105, 32, 116, 104, 101, 114, 101>>         \* 'hi there'
sBlank == <<32, 32>>                                          \* two spaces
sHiPadded == <<32, 104, 105, 32>>                             \* ' hi '
\* The welcome text pushed by onMounted.
sWelcome ==
  <<20320, 22909, 65292, 25105, 26159, 32, 65, 73, 32, 32534, 31243, 23567,
    21161, 25163, 12290, 26377, 20160, 20040, 21487, 20197, 24110, 20320, 65311>>

\* The regular expression class \s of JavaScript.
IsSpace(c) ==
  \/ c \in {9, 10, 11, 12, 13, 32, 160, 5760, 8232, 8233, 8239, 8287, 12288, 65279}
  \/ c \in 8192..8202

\* /^[\s\.,!?;:，。！？；：]/ : the class tested on the first unit of the chunk.
IsLeadingSpaceOrPunct(c) ==
  \/ IsSpace(c)
  \/ c \in {46, 44, 33, 63, 59, 58, 65292, 12290, 65281, 65311, 65307, 65306}

\* /[\s\.,!?;:，。！？；：\-_]/
IsSpaceOrPunct(c) == IsLeadingSpaceOrPunct(c) \/ c \in {45, 95}

\* /[一-龥]/
IsChinese(c) == c \in 19968..40869

\* /[a-zA-Z0-9]/
IsEnglish(c) == c \in 97..122 \/ c \in 65..90 \/ c \in 48..57

\* A mutant of smartConcat: the tests for an empty argument are missing.
smartConcatNoEmptyTest(currentContent, newChunk) ==
  currentContent \o (IF newChunk # <<>> /\ IsLeadingSpaceOrPunct(newChunk[1]) THEN <<>>
                     ELSE <<32>>) \o newChunk

\* A mutant of smartConcat: a space goes between two Chinese characters too.
smartConcatSpaceChinese(currentContent, newChunk) ==
  IF currentContent = <<>> THEN newChunk
  ELSE IF newChunk = <<>> THEN currentContent
  ELSE IF \/ IsSpaceOrPunct(currentContent[Len(currentContent)])
          \/ IsSpaceOrPunct(newChunk[1])
    THEN currentContent \o newChunk
  ELSE IF \/ IsChinese(currentContent[Len(currentContent)])
          \/ IsEnglish(currentContent[Len(currentContent)])
    THEN IF IsChinese(newChunk[1]) \/ IsEnglish(newChunk[1])
           THEN currentContent \o <<32>> \o newChunk
         ELSE currentContent \o newChunk
  ELSE currentContent \o newChunk

\* A mutant of smartConcat: the end of the accumulated text is not tested
\* for a space or punctuation.
smartConcatIgnoreLast(currentContent, newChunk) ==
  IF currentContent = <<>> THEN newChunk
  ELSE IF newChunk = <<>> THEN currentContent
  ELSE IF IsSpaceOrPunct(newChunk[1]) THEN currentContent \o newChunk
  ELSE IF IsChinese(currentContent[Len(currentContent)]) /\ IsChinese(newChunk[1])
    THEN currentContent \o newChunk
  ELSE IF IsEnglish(newChunk[1]) \/ IsChinese(newChunk[1])
    THEN currentContent \o <<32>> \o newChunk
  ELSE currentContent \o newChunk

\* A mutant of smartConcat: plain concatenation, no separator ever.
smartConcatPlain(currentContent, newChunk) == currentContent \o newChunk

\* A mutant of smartConcat: the accumulated text is lost when a chunk arrives.
smartConcatReplace(currentContent, newChunk) ==
  IF newChunk = <<>> THEN currentContent ELSE newChunk

smartConcat(currentContent, newChunk) ==
  IF currentContent = <<>> THEN newChunk
  ELSE IF newChunk = <<>> THEN currentContent
  ELSE IF IsLeadingSpaceOrPunct(newChunk[1]) THEN currentContent \o newChunk
  ELSE
    LET lastChar == currentContent[Len(currentContent)]
        firstChar == newChunk[1]
        isLastCharChinese == IsChinese(lastChar)
        isFirstCharChinese == IsChinese(firstChar)
        isLastCharEnglish == IsEnglish(lastChar)
        isFirstCharEnglish == IsEnglish(firstChar)
        lastCharIsSpaceOrPunct == IsSpaceOrPunct(lastChar)
        firstCharIsSpaceOrPunct == IsSpaceOrPunct(firstChar)
    IN  IF lastCharIsSpaceOrPunct \/ firstCharIsSpaceOrPunct
          THEN currentContent \o newChunk
        ELSE IF isLastCharChinese /\ isFirstCharChinese
          THEN currentContent \o newChunk
        ELSE IF isLastCharEnglish /\ isFirstCharEnglish
          THEN currentContent \o <<32>> \o newChunk
        ELSE IF \/ isLastCharChinese /\ isFirstCharEnglish
                \/ isLastCharEnglish /\ isFirstCharChinese
          THEN currentContent \o <<32>> \o newChunk
        ELSE currentContent \o newChunk

\* String.prototype.trim: white space removed from both ends.
RECURSIVE trimStart(_)
trimStart(s) ==
  IF s # <<>> /\ IsSpace(s[1]) THEN trimStart(Tail(s)) ELSE s

RECURSIVE trimEnd(_)
trimEnd(s) ==
  IF s # <<>> /\ IsSpace(s[Len(s)]) THEN trimEnd(SubSeq(s, 1, Len(s) - 1)) ELSE s

trim(s) == trimEnd(trimStart(s))

(***************************************************************************)
(* JSON.  A JSON text is a sequence of tokens; JSON.stringify writes it    *)
(* and JSON.parse reads it back or throws.  The parser covers the texts    *)
(* this program writes and the damaged texts of InitialStores.             *)
(***************************************************************************)
\* The value `undefined` of a missing memoryId or id property.
Undefined == -1

Tok(t) == [t |-> t, s |-> <<>>, n |-> 0]
Str(s) == [t |-> "str", s |-> s, n |-> 0]
Num(n) == [t |-> "num", s |-> <<>>, n |-> n]

stringifyMessage(msg) ==
  <<Tok("{"), Tok("role"), Str(msg.role), Tok("content"), Str(msg.content), Tok("}")>>

RECURSIVE stringifyMessages(_)
stringifyMessages(msgs) ==
  IF msgs = <<>> THEN <<>>
  ELSE stringifyMessage(Head(msgs)) \o stringifyMessages(Tail(msgs))

\* JSON.stringify(chatData): a property whose value is undefined is left out.
stringifyChat(chatData) ==
  <<Tok("{"), Tok("messages"), Tok("[")>> \o stringifyMessages(chatData.messages)
    \o <<Tok("]")>>
    \o (IF chatData.memoryId = Undefined THEN <<>>
        ELSE <<Tok("memoryId"), Num(chatData.memoryId)>>)
    \o <<Tok("timestamp"), Num(chatData.timestamp), Tok("}")>>

stringifyEntry(e) ==
  <<Tok("{")>>
    \o (IF e.id = Undefined THEN <<>> ELSE <<Tok("id"), Num(e.id)>>)
    \o <<Tok("lastMessage"), Str(e.lastMessage), Tok("timestamp"), Num(e.timestamp),
         Tok("}")>>

RECURSIVE stringifyEntries(_)
stringifyEntries(list) ==
  IF list = <<>> THEN <<>>
  ELSE stringifyEntry(Head(list)) \o stringifyEntries(Tail(list))

\* JSON.stringify(sessionList)
stringifySessionList(list) == <<Tok("[")>> \o stringifyEntries(list) \o <<Tok("]")>>

IsTok(text, i, t) == i <= Len(text) /\ text[i].t = t

\* The elements of a messages array from token i up to its closing bracket.
RECURSIVE parseMessages(_, _, _)
parseMessages(text, i, acc) ==
  IF IsTok(text, i, "]") THEN [ok |-> TRUE, messages |-> acc, next |-> i + 1]
  ELSE IF /\ IsTok(text, i, "{") /\ IsTok(text, i + 1, "role")
          /\ IsTok(text, i + 2, "str") /\ IsTok(text, i + 3, "content")
          /\ IsTok(text, i + 4, "str") /\ IsTok(text, i + 5, "}")
    THEN parseMessages(text, i + 6,
           Append(acc, [role |-> text[i + 2].s, content |-> text[i + 4].s]))
  ELSE [ok |-> FALSE, messages |-> <<>>, next |-> i]

ParseFailed ==
  [ok |-> FALSE, isObject |-> FALSE, hasMessages |-> FALSE, messages |-> <<>>,
   memoryId |-> Undefined]

\* JSON.parse of a session body: ok is FALSE when it throws a SyntaxError,
\* isObject is FALSE for the text null.
parseChat(text) ==
  IF text = <<Tok("null")>> THEN [ParseFailed EXCEPT !.ok = TRUE]
  ELSE IF ~IsTok(text, 1, "{") THEN ParseFailed
  ELSE
    LET hasMessages == IsTok(text, 2, "messages") /\ IsTok(text, 3, "[")
        m == IF hasMessages THEN parseMessages(text, 4, <<>>)
             ELSE [ok |-> TRUE, messages |-> <<>>, next |-> 2]
        i == m.next
        hasId == IsTok(text, i, "memoryId") /\ IsTok(text, i + 1, "num")
        j == IF hasId THEN i + 2 ELSE i
        hasTs == IsTok(text, j, "timestamp") /\ IsTok(text, j + 1, "num")
        k == IF hasTs THEN j + 2 ELSE j
    IN  IF m.ok /\ IsTok(text, k, "}") /\ k = Len(text)
          THEN [ok |-> TRUE, isObject |-> TRUE, hasMessages |-> hasMessages,
                messages |-> m.messages,
                memoryId |-> IF hasId THEN text[i + 1].n ELSE Undefined]
        ELSE ParseFailed

\* The elements of a session list from token i up to its closing bracket.
RECURSIVE parseEntries(_, _, _)
parseEntries(text, i, acc) ==
  IF IsTok(text, i, "]") THEN [ok |-> i = Len(text), list |-> acc]
  ELSE IF IsTok(text, i, "{") THEN
    LET hasId == IsTok(text, i + 1, "id") /\ IsTok(text, i + 2, "num")
        j == IF hasId THEN i + 3 ELSE i + 1
    IN  IF /\ IsTok(text, j, "lastMessage") /\ IsTok(text, j + 1, "str")
           /\ IsTok(text, j + 2, "timestamp") /\ IsTok(text, j + 3, "num")
           /\ IsTok(text, j + 4, "}")
          THEN parseEntries(text, j + 5,
                 Append(acc, [id |-> IF hasId THEN text[i + 2].n ELSE Undefined,
                              lastMessage |-> text[j + 1].s,
                              timestamp |-> text[j + 3].n]))
        ELSE [ok |-> FALSE, list |-> <<>>]
  ELSE [ok |-> FALSE, list |-> <<>>]

\* JSON.parse of the session index: ok is FALSE when it throws a SyntaxError,
\* isArray is FALSE for the text null.
parseSessionList(text) ==
  IF text = <<Tok("null")>> THEN [ok |-> TRUE, isArray |-> FALSE, list |-> <<>>]
  ELSE IF ~IsTok(text, 1, "[") THEN [ok |-> FALSE, isArray |-> FALSE, list |-> <<>>]
  ELSE LET r == parseEntries(text, 2, <<>>)
       IN  [ok |-> r.ok, isArray |-> r.ok, list |-> r.list]

(***************************************************************************)
(* localStorage: the item 'chat_sessions' and one item 'chat_<id>' per id. *)
(***************************************************************************)
\* The values generateMemoryId can return in the model.
Ids == {1, 2}

\* The ids a stored key can carry: chat_undefined is a key too.
Keys == Ids \cup {3, Undefined}

NoItem == [has |-> FALSE, val |-> <<>>]
Item(text) == [has |-> TRUE, val |-> text]

EmptyStorage == [sessions |-> NoItem, chat |-> [k \in Keys |-> NoItem]]

\* localStorage.getItem(key) || dflt : null and '' both give dflt.
getItemOr(item, dflt) == IF item.has /\ item.val # <<>> THEN item.val ELSE dflt

(***************************************************************************)
(* The component.  A state record S carries the refs of the component      *)
(* (inputText, loading, evtSource, memoryId), the reactive array messages, *)
(* the EventSource objects it created (sources), localStorage, the last    *)
(* reading of Date.now() (clock) and whether the watcher of messages has   *)
(* a run pending (dirty).  Each function of the source is an operator from *)
(* the state before the call to the state after it.                        *)
(***************************************************************************)
\* evtSource.value when no connection is held.
Null == 0

\* EventSource.readyState
CONNECTING == 0
OPEN == 1
CLOSED == 2

WelcomeMessage == [role |-> sAssistant, content |-> sWelcome]

\* A mutant of closeStream: the reference is dropped, the connection is not closed.
closeStreamLeak(S) == [S EXCEPT !.evtSource = Null, !.loading = FALSE]

\* A mutant of closeStream: the connection is closed, the loading state is kept.
closeStreamBusy(S) ==
  [S EXCEPT !.sources = IF S.evtSource # Null
                          THEN [@ EXCEPT ![S.evtSource].readyState = CLOSED]
                          ELSE @,
            !.evtSource = Null]

closeStream(S) ==
  [S EXCEPT !.sources = IF S.evtSource # Null
                          THEN [@ EXCEPT ![S.evtSource].readyState = CLOSED]
                          ELSE @,
            !.evtSource = Null,
            !.loading = FALSE]

\* new EventSource(url) with the handlers of openStream bound to messageIndex.
NewEventSource(S, text, messageIndex) ==
  [readyState |-> CONNECTING, memoryId |-> S.memoryId, message |-> text,
   messageIndex |-> messageIndex]

\* A mutant of openStream: the connection held is not closed before the new
\* one is opened.
openStreamNoClose(S, text, messageIndex) ==
  [S EXCEPT !.sources = Append(@, NewEventSource(S, text, messageIndex)),
            !.evtSource = Len(S.sources) + 1,
            !.loading = FALSE]

openStream(S, text, messageIndex) ==
  LET s1 == [S EXCEPT !.loading = TRUE]
      s2 == closeStream(s1)
      es == Len(s2.sources) + 1
  IN  [s2 EXCEPT !.sources = Append(@, NewEventSource(S, text, messageIndex)),
                 !.evtSource = es]

\* A mutant of onSend: the position handed to openStream is the length of
\* the list, one past the placeholder.
onSendIndexPastEnd(S) ==
  LET text == trim(S.inputText)
  IN  IF text = <<>> \/ S.loading THEN S
      ELSE LET s1 == [S EXCEPT !.messages = @ \o <<[role |-> sUser, content |-> text],
                                                   [role |-> sAssistant, content |-> <<>>]>>,
                               !.inputText = <<>>,
                               !.dirty = TRUE]
           IN  openStream(s1, text, Len(s1.messages) + 1)

\* A mutant of onSend: the in-flight guard is missing and the input is kept.
onSendKeepInput(S) ==
  LET text == trim(S.inputText)
  IN  IF text = <<>> THEN S
      ELSE LET s1 == [S EXCEPT !.messages = @ \o <<[role |-> sUser, content |-> text],
                                                   [role |-> sAssistant, content |-> <<>>]>>,
                               !.dirty = TRUE]
           IN  openStream(s1, text, Len(s1.messages))

onSend(S) ==
  LET text == trim(S.inputText)
  IN  IF text = <<>> \/ S.loading THEN S
      ELSE LET s1 == [S EXCEPT !.messages = @ \o <<[role |-> sUser, content |-> text],
                                                   [role |-> sAssistant, content |-> <<>>]>>,
                               !.inputText = <<>>,
                               !.dirty = TRUE]
           IN  openStream(s1, text, Len(s1.messages))

\* A mutant of onmessage: every chunk is pushed as a message of its own.
onmessageAppend(S, es, data) ==
  IF data = sDone THEN closeStream(S)
  ELSE IF data = <<>> \/ data = sPing \/ data = sKeepalive THEN S
  ELSE [S EXCEPT !.messages = Append(@, [role |-> sAssistant, content |-> data]),
                 !.dirty = TRUE]

\* A mutant of onmessage: the change of a content does not reach the watcher
\* (a watcher that is not deep).
onmessageShallow(S, es, data) ==
  LET messageIndex == S.sources[es].messageIndex
  IN  IF data = sDone THEN closeStream(S)
      ELSE IF data = <<>> \/ data = sPing \/ data = sKeepalive THEN S
      ELSE [S EXCEPT !.messages[messageIndex].content = smartConcat(@, data)]

\* A mutant of onmessage: a heartbeat or an empty payload ends the stream
\* like the sentinel.
onmessageHeartbeatCloses(S, es, data) ==
  LET messageIndex == S.sources[es].messageIndex
  IN  IF data = sDone \/ data = <<>> \/ data = sPing \/ data = sKeepalive
        THEN closeStream(S)
      ELSE [S EXCEPT !.messages[messageIndex].content = smartConcat(@, data),
                     !.dirty = TRUE]

\* A mutant of onmessage: heartbeats are merged like content.
onmessageNoFilter(S, es, data) ==
  LET messageIndex == S.sources[es].messageIndex
  IN  IF data = sDone THEN closeStream(S)
      ELSE IF data = <<>> THEN S
      ELSE [S EXCEPT !.messages[messageIndex].content = smartConcat(@, data),
                     !.dirty = TRUE]

\* A mutant of onmessage: the sentinel does not close the connection.
onmessageNoClose(S, es, data) ==
  LET messageIndex == S.sources[es].messageIndex
  IN  IF data = sDone \/ data = <<>> \/ data = sPing \/ data = sKeepalive THEN S
      ELSE [S EXCEPT !.messages[messageIndex].content = smartConcat(@, data),
                     !.dirty = TRUE]

\* es.onmessage with e.data = data
onmessage(S, es, data) ==
  LET messageIndex == S.sources[es].messageIndex
  IN  IF data = sDone THEN closeStream(S)
      ELSE IF data = <<>> \/ data = sPing \/ data = sKeepalive THEN S
      ELSE IF messageIndex >= 1 /\ messageIndex <= Len(S.messages)
        THEN [S EXCEPT !.messages[messageIndex].content = smartConcat(@, data),
                       !.dirty = TRUE]
      ELSE S

\* A mutant of onerror: the placeholder of the failed stream is taken out of the list.
onerrorDropPlaceholder(S, es) ==
  LET messageIndex == S.sources[es].messageIndex
  IN  closeStream([S EXCEPT !.messages = SubSeq(@, 1, messageIndex - 1)
                                           \o SubSeq(@, messageIndex + 1, Len(@)),
                            !.dirty = TRUE])

\* A mutant of onerror: a connection reported closed is taken to need no teardown.
onerrorSkipClosed(S, es) ==
  IF S.sources[es].readyState = CLOSED THEN S ELSE closeStream(S)

\* es.onerror: the branches on es.readyState and on the data received choose
\* a console diagnostic only; every branch ends in closeStream().
onerror(S, es) == closeStream(S)

(***************************************************************************)
(* Persistence.                                                            *)
(***************************************************************************)
\* The text '[]'
sEmptyList == <<Tok("["), Tok("]")>>

\* sessionList.find(s => s.id === memoryId.value): the position of the first
\* entry of that id, 0 when there is none.
RECURSIVE findSession(_, _, _)
findSession(list, id, i) ==
  IF i > Len(list) THEN 0
  ELSE IF list[i].id = id THEN i
  ELSE findSession(list, id, i + 1)

\* A mutant of upsertSession: an entry is pushed whether or not one exists.
upsertSessionAlwaysPush(list, id, lastMessage, now) ==
  Append(list, [id |-> id, lastMessage |-> lastMessage, timestamp |-> now])

\* The session list after the update or the push of lines 399-409.
upsertSession(list, id, lastMessage, now) ==
  LET existingSession == findSession(list, id, 1)
  IN  IF existingSession # 0
        THEN [list EXCEPT ![existingSession].lastMessage = lastMessage,
                          ![existingSession].timestamp = now]
      ELSE Append(list, [id |-> id, lastMessage |-> lastMessage, timestamp |-> now])

\* A mutant of saveMessages: the index is written first, the body after it.
saveMessagesIndexFirst(S, t1, t2, fail) ==
  LET chatData == [messages |-> S.messages, memoryId |-> S.memoryId, timestamp |-> t1]
      parsed == parseSessionList(getItemOr(S.localStorage.sessions, sEmptyList))
      lastMessage == IF S.messages = <<>> THEN <<>>
                     ELSE S.messages[Len(S.messages)].content
      sessionList == upsertSession(parsed.list, S.memoryId, lastMessage, t2)
      s1 == [S EXCEPT !.clock = t2]
      s2 == [s1 EXCEPT !.localStorage.sessions = Item(stringifySessionList(sessionList))]
  IN  IF ~parsed.ok \/ ~parsed.isArray \/ fail = "index" THEN s1
      ELSE IF fail = "body" THEN s2
      ELSE [s2 EXCEPT !.localStorage.chat[S.memoryId] = Item(stringifyChat(chatData))]

\* A mutant of saveMessages: the body is written without its last message.
saveMessagesDropLast(S, t1, t2, fail) ==
  IF fail = "body" \/ S.messages = <<>> THEN [S EXCEPT !.clock = t1]
  ELSE [S EXCEPT !.clock = t2,
                 !.localStorage.chat[S.memoryId] =
                   Item(stringifyChat([messages |-> SubSeq(S.messages, 1, Len(S.messages) - 1),
                                       memoryId |-> S.memoryId, timestamp |-> t1]))]

\* saveMessages().  t1 and t2 are the readings of Date.now() at line 394 and
\* at line 402 or 407; fail names the localStorage.setItem that throws
\* ("body": line 396, "index": line 410, "none").  What is thrown inside the
\* try block is caught at line 411 and the function returns.
saveMessages(S, t1, t2, fail) ==
  LET chatData == [messages |-> S.messages, memoryId |-> S.memoryId, timestamp |-> t1]
      s1 == [S EXCEPT !.clock = t1]
      s2 == [s1 EXCEPT !.localStorage.chat[S.memoryId] = Item(stringifyChat(chatData))]
      parsed == parseSessionList(getItemOr(s2.localStorage.sessions, sEmptyList))
      lastMessage == IF S.messages = <<>> THEN <<>>
                     ELSE S.messages[Len(S.messages)].content
      sessionList == upsertSession(parsed.list, S.memoryId, lastMessage, t2)
      s3 == [s2 EXCEPT !.clock = t2]
  IN  IF fail = "body" THEN s1
      ELSE IF ~parsed.ok \/ ~parsed.isArray THEN s2
      ELSE IF fail = "index" THEN s3
      ELSE [s3 EXCEPT !.localStorage.sessions = Item(stringifySessionList(sessionList))]

\* A mutant of loadMessages: the session id of the record is not taken over.
loadMessagesKeepId(S, sessionId) ==
  LET item == S.localStorage.chat[sessionId]
      chatData == parseChat(item.val)
  IN  IF item.has /\ item.val # <<>> /\ chatData.ok /\ chatData.hasMessages
        THEN [ok |-> TRUE,
              s |-> [S EXCEPT !.messages = chatData.messages,
                              !.dirty = @ \/ chatData.messages # S.messages]]
      ELSE [ok |-> FALSE, s |-> S]

\* loadMessages(sessionId): ok is the value returned, s the state afterwards.
\* JSON.parse throwing leaves the state as it was; a parsed value without a
\* messages array throws at line 427, after the splice of line 425.
loadMessages(S, sessionId) ==
  LET item == S.localStorage.chat[sessionId]
      chatData == parseChat(item.val)
      s1 == [S EXCEPT !.messages = <<>>, !.dirty = @ \/ S.messages # <<>>]
  IN  IF ~(item.has /\ item.val # <<>>) THEN [ok |-> FALSE, s |-> S]
      ELSE IF ~chatData.ok THEN [ok |-> FALSE, s |-> S]
      ELSE IF ~chatData.isObject \/ ~chatData.hasMessages THEN [ok |-> FALSE, s |-> s1]
      ELSE [ok |-> TRUE,
            s |-> [s1 EXCEPT !.messages = chatData.messages,
                             !.memoryId = chatData.memoryId,
                             !.dirty = @ \/ chatData.messages # <<>>]]

\* A mutant of compareSessions: ascending order.
compareSessionsAscending(a, b) == a.timestamp - b.timestamp

\* The comparator of line 116: (a, b) => b.timestamp - a.timestamp
compareSessions(a, b) == b.timestamp - a.timestamp

\* e placed in front of the first entry the comparator orders it before.
RECURSIVE insertSorted(_, _)
insertSorted(sorted, e) ==
  IF sorted = <<>> THEN <<e>>
  ELSE IF compareSessions(e, Head(sorted)) < 0 THEN <<e>> \o sorted
  ELSE <<Head(sorted)>> \o insertSorted(Tail(sorted), e)

\* sessionList.sort(compareSessions); Array.prototype.sort is stable.
RECURSIVE sortSessions(_)
sortSessions(sessionList) ==
  IF sessionList = <<>> THEN <<>>
  ELSE insertSorted(sortSessions(SubSeq(sessionList, 1, Len(sessionList) - 1)),
                    sessionList[Len(sessionList)])

\* Lines 113-117 of onMounted: the session the component starts from.  threw
\* is TRUE when JSON.parse or the read of .length throws out of the hook.
recentSession(S) ==
  LET parsed == parseSessionList(getItemOr(S.localStorage.sessions, sEmptyList))
      sessionList == sortSessions(parsed.list)
  IN  IF ~parsed.ok \/ ~parsed.isArray
        THEN [threw |-> TRUE, found |-> FALSE, id |-> Undefined, timestamp |-> 0]
      ELSE IF Len(sessionList) > 0
        THEN [threw |-> FALSE, found |-> TRUE, id |-> sessionList[1].id,
              timestamp |-> sessionList[1].timestamp]
      ELSE [threw |-> FALSE, found |-> FALSE, id |-> Undefined, timestamp |-> 0]

pushWelcome(S) == [S EXCEPT !.messages = Append(@, WelcomeMessage), !.dirty = TRUE]

\* A mutant of onMounted: the welcome message is pushed after a load as well.
onMountedAlwaysWelcome(S) ==
  LET recent == recentSession(S)
  IN  IF recent.threw THEN S
      ELSE IF recent.found THEN pushWelcome(loadMessages(S, recent.id).s)
      ELSE pushWelcome(S)

onMounted(S) ==
  LET recent == recentSession(S)
      loaded == loadMessages(S, recent.id)
  IN  IF recent.threw THEN S
      ELSE IF recent.found
        THEN IF ~loaded.ok THEN pushWelcome(loaded.s) ELSE loaded.s
      ELSE pushWelcome(S)

\* The callback of watch(messages), run when a handler has changed messages.
\* It runs in the microtasks that follow the handler, before the next event.
watchMessages(S, t1, t2, fail) ==
  IF ~S.dirty THEN S
  ELSE [(IF Len(S.messages) > 0 THEN saveMessages(S, t1, t2, fail) ELSE S)
          EXCEPT !.dirty = FALSE]

\* A mutant of onUnmounted: the connection is closed, nothing is saved.
onUnmountedNoSave(S, t1, t2, fail) == closeStream(S)

onUnmounted(S, t1, t2, fail) ==
  LET s1 == closeStream(S)
  IN  IF Len(s1.messages) > 0 THEN saveMessages(s1, t1, t2, fail) ELSE s1

(***************************************************************************)
(* The state machine.                                                      *)
(***************************************************************************)
VARIABLES
  phase,         \* "created" (setup has run), "mounted" or "unmounted"
  inputText,     \* ref inputText
  loading,       \* ref loading
  evtSource,     \* ref evtSource: Null or the position of an EventSource in sources
  memoryId,      \* ref memoryId
  messages,      \* reactive messages
  sources,       \* the EventSource objects created by this instance
  localStorage,  \* window.localStorage
  clock,         \* the last reading of Date.now()
  mounts,        \* component instances created so far
  delivered,     \* history: per EventSource, the e.data handed to its onmessage
  closedBy,      \* history: per EventSource, the handler that closed it
  late,          \* history: the EventSources an event reached after they were closed
  opened,        \* history: EventSource objects created so far
  events,        \* history: message events dispatched so far
  failures,      \* history: calls of setItem that threw so far
  lookup,        \* history: recentSession as onMounted computed it
  saved,         \* history: per key, what saveMessages last wrote under it
  call,          \* a call of smartConcat: its arguments and what it returned
  teardown       \* history: the session id and message list at the last onUnmounted

vars ==
  <<phase, inputText, loading, evtSource, memoryId, messages, sources, localStorage,
    clock, mounts, delivered, closedBy, late, opened, events, failures, lookup, saved,
    call, teardown>>

\* Texts the user types.
Inputs == {sHi, sBlank}

\* The e.data of the message events the server sends.
Payloads == {sHel, sLoBang, sDone, sPing, sKeepalive, <<>>}

(***************************************************************************)
(* An environment E says what the world outside the component may do:      *)
(* payloads are the e.data the server sends, fails the calls of setItem    *)
(* that may throw, advance how far the clock may move, and maxEvents       *)
(* bounds the behaviour.  StreamEnv is a page with a working store and a   *)
(* talkative server, StoreEnv one with a failing store.                    *)
(***************************************************************************)
StreamEnv ==
  [inputs |-> Inputs, payloads |-> Payloads, fails |-> {"none"}, advance |-> 0,
   maxEvents |-> MaxEvents]

StoreEnv ==
  [inputs |-> {sHi}, payloads |-> {sHel}, fails |-> {"none", "body", "index"},
   advance |-> MaxClockAdvance, maxEvents |-> MaxStoreEvents]

\* The timestamps of the sessions stored before the page is opened.
StoredTimestamps == {5, 20, 3}

\* The clock when the page is opened: the stored sessions are older.
InitialClock == 1 + CHOOSE t \in StoredTimestamps : \A u \in StoredTimestamps : u <= t

\* Which localStorage.setItem of a save throws.
Fails(E) == IF failures < MaxFailures THEN E.fails ELSE {"none"}

\* The pairs of readings Date.now() can give to one save.
Readings(E) ==
  {t \in (clock..(InitialClock + E.advance)) \X (clock..(InitialClock + E.advance)) :
     t[1] <= t[2]}

StoredMessages ==
  <<WelcomeMessage, [role |-> sUser, content |-> sHi],
    [role |-> sAssistant, content |-> sHelLo]>>

StoredChat(id, ts) ==
  Item(stringifyChat([messages |-> StoredMessages, memoryId |-> id, timestamp |-> ts]))

StoredIndex(list) == Item(stringifySessionList(list))

Entry(id, ts) == [id |-> id, lastMessage |-> sHelLo, timestamp |-> ts]

\* What localStorage can hold when the page is opened: nothing, what earlier
\* runs of this program wrote, and items damaged or written by something else.
InitialStores ==
  { EmptyStorage,
    \* three sessions, timestamps 5, 20 and 3; the body of the third is gone
    [sessions |-> StoredIndex(<<Entry(1, 5), Entry(2, 20), Entry(3, 3)>>),
     chat |-> [k \in Keys |-> IF k \in {1, 2} THEN StoredChat(k, IF k = 1 THEN 5 ELSE 20)
                              ELSE NoItem]],
    \* an indexed session without a body
    [sessions |-> StoredIndex(<<Entry(1, 5)>>), chat |-> [k \in Keys |-> NoItem]],
    \* a body cut short: JSON.parse throws
    [sessions |-> StoredIndex(<<Entry(1, 5)>>),
     chat |-> [k \in Keys |-> IF k = 1 THEN Item(<<Tok("{"), Tok("messages"), Tok("[")>>)
                              ELSE NoItem]],
    \* a body that is an object without messages
    [sessions |-> StoredIndex(<<Entry(1, 5)>>),
     chat |-> [k \in Keys |-> IF k = 1 THEN Item(<<Tok("{"), Tok("timestamp"), Num(5), Tok("}")>>)
                              ELSE NoItem]],
    \* a body with messages and without memoryId
    [sessions |-> StoredIndex(<<Entry(1, 5)>>),
     chat |-> [k \in Keys |-> IF k = 1
                                THEN Item(stringifyChat([messages |-> StoredMessages,
                                                         memoryId |-> Undefined,
                                                         timestamp |-> 5]))
                              ELSE NoItem]],
    \* an index cut short: JSON.parse throws
    [sessions |-> Item(<<Tok("["), Tok("{")>>),
     chat |-> [k \in Keys |-> IF k = 1 THEN StoredChat(1, 5) ELSE NoItem]] }

NoLookup == [threw |-> FALSE, found |-> FALSE, id |-> Undefined, timestamp |-> 0]

\* No component instance has been torn down.
NoTeardown == [has |-> FALSE, memoryId |-> Undefined, messages |-> <<>>, failed |-> FALSE]

\* No call of smartConcat is followed.
NoCall == [currentContent |-> <<>>, newChunk |-> <<>>, result |-> <<>>, returned |-> TRUE]
NothingSaved == [k \in Keys |-> [has |-> FALSE, messages |-> <<>>, memoryId |-> Undefined]]

\* The state record of the current state.
Cur ==
  [inputText |-> inputText, loading |-> loading, evtSource |-> evtSource,
   memoryId |-> memoryId, messages |-> messages, sources |-> sources,
   localStorage |-> localStorage, clock |-> clock, dirty |-> FALSE]

\* The next state is S; saved records the bodies written on the way.
Commit(S) ==
  /\ inputText' = S.inputText
  /\ loading' = S.loading
  /\ evtSource' = S.evtSource
  /\ memoryId' = S.memoryId
  /\ messages' = S.messages
  /\ sources' = S.sources
  /\ localStorage' = S.localStorage
  /\ clock' = S.clock
  /\ saved' = [k \in Keys |->
                 IF S.localStorage.chat[k] # localStorage.chat[k]
                   THEN [has |-> TRUE, messages |-> S.messages, memoryId |-> S.memoryId]
                 ELSE saved[k]]

\* closedBy after a step of `handler`.
Closing(handler) ==
  closedBy' = [es \in 1..Len(sources') |->
                 IF es > Len(sources) THEN "none"
                 ELSE IF sources[es].readyState # CLOSED /\ sources'[es].readyState = CLOSED
                   THEN handler
                 ELSE closedBy[es]]

\* The save of state S failed as `fail` says, if it ran at all.
CountFailure(S, fail, ran) ==
  failures' = IF ran /\ Len(S.messages) > 0 /\ fail # "none" THEN failures + 1
              ELSE failures

\* A handler has returned with state S: the watcher runs, then the state is kept.
Settle(E, S) ==
  \E t \in Readings(E), fail \in Fails(E) :
    /\ Commit(watchMessages(S, t[1], t[2], fail))
    /\ CountFailure(S, fail, S.dirty)

\* script setup: the refs of a new component instance, on a page whose
\* localStorage is one of stores.
InitOn(stores) ==
  /\ phase = "created"
  /\ inputText = <<>>
  /\ loading = FALSE
  /\ evtSource = Null
  /\ memoryId \in Ids
  /\ messages = <<>>
  /\ sources = <<>>
  /\ localStorage \in stores
  /\ clock = InitialClock
  /\ mounts = 1
  /\ delivered = <<>>
  /\ closedBy = <<>>
  /\ late = {}
  /\ opened = 0
  /\ events = 0
  /\ failures = 0
  /\ lookup = NoLookup
  /\ saved = NothingSaved
  /\ teardown = NoTeardown

Mount(E) ==
  /\ phase = "created"
  /\ phase' = "mounted"
  /\ lookup' = recentSession(Cur)
  /\ Settle(E, onMounted(Cur))
  /\ UNCHANGED <<mounts, delivered, closedBy, late, opened, events, call, teardown>>

\* v-model: the user edits the input, which is disabled while loading.
Type(text) ==
  /\ phase = "mounted"
  /\ ~loading
  /\ inputText' = text
  /\ UNCHANGED <<phase, loading, evtSource, memoryId, messages, sources, localStorage,
                 clock, mounts, delivered, closedBy, late, opened, events, failures, lookup,
                 saved, call, teardown>>

\* The form is submitted or Enter is pressed.
Send(E) ==
  /\ phase = "mounted"
  /\ Len(onSend(Cur).sources) > Len(sources) => opened + events < E.maxEvents
  /\ Settle(E, onSend(Cur))
  /\ delivered' = IF Len(sources') > Len(sources) THEN Append(delivered, <<>>)
                  ELSE delivered
  /\ opened' = opened + Len(sources') - Len(sources)
  /\ Closing("openStream")
  /\ UNCHANGED <<phase, mounts, late, events, lookup, call, teardown>>

\* The connection of es is established; es.onopen only logs.
Connected(es) ==
  /\ phase = "mounted"
  /\ sources[es].readyState = CONNECTING
  /\ sources' = [sources EXCEPT ![es].readyState = OPEN]
  /\ UNCHANGED <<phase, inputText, loading, evtSource, memoryId, messages, localStorage,
                 clock, mounts, delivered, closedBy, late, opened, events, failures, lookup,
                 saved, call, teardown>>

\* A message event is dispatched to es: the browser does so only while es is open.
Message(E, es, data) ==
  /\ phase = "mounted"
  /\ sources[es].readyState = OPEN
  /\ opened + events < E.maxEvents
  /\ events' = events + 1
  /\ Settle(E, onmessage(Cur, es, data))
  /\ delivered' = [delivered EXCEPT ![es] = Append(@, data)]
  /\ Closing("onmessage")
  /\ UNCHANGED <<phase, mounts, late, opened, lookup, call, teardown>>

\* An error event is dispatched to es, the browser having set readyState.
Error(E, es, readyState) ==
  /\ phase = "mounted"
  /\ sources[es].readyState # CLOSED
  /\ Settle(E, onerror([Cur EXCEPT !.sources[es].readyState = readyState], es))
  /\ Closing("onerror")
  /\ UNCHANGED <<phase, mounts, delivered, late, opened, events, lookup, call, teardown>>

\* An event of the server reaches es after es.close(): the browser drops it.
LateEvent(es) ==
  /\ sources[es].readyState = CLOSED
  /\ late' = late \cup {es}
  /\ UNCHANGED <<phase, inputText, loading, evtSource, memoryId, messages, sources,
                 localStorage, clock, mounts, delivered, closedBy, opened, events, failures,
                 lookup, saved, call, teardown>>

Unmount(E) ==
  /\ phase = "mounted"
  /\ phase' = "unmounted"
  /\ \E t \in Readings(E), fail \in Fails(E) :
       /\ Commit(onUnmounted(Cur, t[1], t[2], fail))
       /\ CountFailure(Cur, fail, TRUE)
  /\ Closing("onUnmounted")
  /\ teardown' = [has |-> TRUE, memoryId |-> memoryId, messages |-> messages,
                  failed |-> failures' # failures]
  /\ UNCHANGED <<mounts, delivered, late, opened, events, lookup, call>>

\* The component is created again on the same page: script setup runs anew.
Remount ==
  /\ phase = "unmounted"
  /\ mounts < MaxMounts
  /\ mounts' = mounts + 1
  /\ phase' = "created"
  /\ inputText' = <<>>
  /\ loading' = FALSE
  /\ evtSource' = Null
  /\ memoryId' \in Ids
  /\ messages' = <<>>
  /\ sources' = <<>>
  /\ delivered' = <<>>
  /\ closedBy' = <<>>
  /\ late' = {}
  /\ lookup' = NoLookup
  /\ UNCHANGED <<localStorage, clock, opened, events, failures, saved, call, teardown>>

\* One component instance on a page with an empty, working store: what the
\* user, the server and the browser can do to it.
Init == InitOn({EmptyStorage}) /\ memoryId = 1 /\ call = NoCall

Next ==
  \/ Mount(StreamEnv)
  \/ \E text \in StreamEnv.inputs : Type(text)
  \/ Send(StreamEnv)
  \/ \E es \in 1..Len(sources) : Connected(es)
  \/ \E es \in 1..Len(sources), data \in StreamEnv.payloads : Message(StreamEnv, es, data)
  \/ \E es \in 1..Len(sources), readyState \in {CONNECTING, OPEN, CLOSED} :
       Error(StreamEnv, es, readyState)
  \/ \E es \in 1..Len(sources) : LateEvent(es)
  \/ Unmount(StreamEnv)

Spec == Init /\ [][Next]_vars

\* Component instances, one after the other, on a page whose store holds
\* earlier sessions or damaged items, and may fail.
InitStore == InitOn(InitialStores) /\ call = NoCall

NextStore ==
  \/ Mount(StoreEnv)
  \/ \E text \in StoreEnv.inputs : Type(text)
  \/ Send(StoreEnv)
  \/ \E es \in 1..Len(sources) : Connected(es)
  \/ \E es \in 1..Len(sources), data \in StoreEnv.payloads : Message(StoreEnv, es, data)
  \/ Unmount(StoreEnv)
  \/ Remount

SpecStore == InitStore /\ [][NextStore]_vars

(***************************************************************************)
(* smartConcat on its own: one call, its arguments drawn from the strings  *)
(* below.                                                                  *)
(***************************************************************************)
\* One code unit of each kind the regular expressions of smartConcat tell
\* apart: a letter, a digit, a Chinese character, a space, a full-width
\* comma, a hyphen (punctuation inside the text, not at the head of a
\* chunk) and a number sign (none of the classes).
Alphabet == {104, 49, 20320, 32, 65292, 45, 35}

\* The strings of up to n code units of the alphabet.
StringsUpTo(n) == UNION {[1..k -> Alphabet] : k \in 0..n}

\* The arguments of smartConcat.
Strings ==
  StringsUpTo(MaxLen) \cup {sHelloWord, sWorld, sNiHao, sShiJie, sHi, sHiSpace, sThere, sSpaceThere}

\* smartConcat(call.currentContent, call.newChunk) runs and returns.
Merge ==
  /\ ~call.returned
  /\ call' = [call EXCEPT !.result = smartConcat(call.currentContent, call.newChunk),
                          !.returned = TRUE]
  /\ UNCHANGED <<phase, inputText, loading, evtSource, memoryId, messages, sources,
                 localStorage, clock, mounts, delivered, closedBy, late, opened, events,
                 failures, lookup, saved, teardown>>

InitMerge ==
  /\ InitOn({EmptyStorage})
  /\ memoryId = 1
  /\ call \in {[currentContent |-> x, newChunk |-> y, result |-> <<>>, returned |-> FALSE] :
                 x \in Strings, y \in Strings}

NextMerge == Merge

SpecMerge == InitMerge /\ [][NextMerge]_vars

(***************************************************************************)
(* Properties.                                                             *)
(***************************************************************************)
\* The payloads onmessage merges: not empty, no heartbeat, not the sentinel.
IsContent(data) == data \notin {<<>>, sPing, sKeepalive, sDone}

\* The left fold of smartConcat over the content payloads of `payloads`.
RECURSIVE FoldMerge(_, _)
FoldMerge(acc, payloads) ==
  IF payloads = <<>> THEN acc
  ELSE FoldMerge(IF IsContent(Head(payloads)) THEN smartConcat(acc, Head(payloads))
                 ELSE acc,
                 Tail(payloads))

\* The content of the placeholder that EventSource es fills.
Placeholder(es) == messages[sources[es].messageIndex].content

Contents(payloads) == {i \in 1..Len(payloads) : IsContent(payloads[i])}

\* C1: the placeholder of every stream holds the left fold of smartConcat,
\* from the empty string, over the payloads delivered to the stream in
\* delivery order, the empty payloads, heartbeats and sentinel left out.
C1_PlaceholderIsFold ==
  \A es \in 1..Len(sources) : Placeholder(es) = FoldMerge(<<>>, delivered[es])

\* C1 witness: a stream that got two content chunks with a heartbeat between.
C1_Witness ==
  \E es \in 1..Len(sources) :
    /\ Len(delivered[es]) = 3
    /\ Contents(delivered[es]) = {1, 3}
    /\ delivered[es][2] \in {sPing, sKeepalive, <<>>}
    /\ Placeholder(es) = smartConcat(delivered[es][1], delivered[es][3])

\* The scenario of C2: the first submit of a fresh component is 'hi' and its
\* stream has delivered 'Hel', 'lo!' and '[DONE]', in that order.
C2_Scenario ==
  /\ Len(sources) = 1
  /\ sources[1].message = sHi
  /\ delivered[1] = <<sHel, sLoBang, sDone>>

LastTwoMessagesAre(first, second) ==
  /\ Len(messages) >= 2
  /\ messages[Len(messages) - 1] = first
  /\ messages[Len(messages)] = second

C3_Original == evtSource # Null => loading

\* A stream is in flight: the connection opened by a submit is still held.
InFlight == evtSource # Null

\* C4 as claimed: a submit whose text trims to empty, or made while the
\* stream of an earlier submit is in flight, changes neither the message
\* list nor the input text nor the connection nor the busy flag.
C4_Original ==
  [][(Send(StreamEnv) /\ (trim(inputText) = <<>> \/ InFlight))
       => UNCHANGED <<messages, inputText, evtSource, loading>>]_vars

\* The EventSource objects whose connection is not closed.
OpenSources == {es \in 1..Len(sources) : sources[es].readyState # CLOSED}

\* C5: at most one connection is open, it is the one evtSource holds, and
\* no two EventSource objects fill the same placeholder.
C5_AtMostOneOpen ==
  /\ OpenSources = IF evtSource = Null THEN {} ELSE {evtSource}
  /\ \A a, b \in 1..Len(sources) :
       a # b => sources[a].messageIndex # sources[b].messageIndex

\* C5 witness: a second stream was opened while the first was open, and the
\* first was closed for it.
C5_Witness ==
  /\ Len(sources) = 2
  /\ closedBy[1] = "openStream"
  /\ OpenSources = {2}

\* The sentinel has been delivered to es.
DoneSeen(es) == \E i \in 1..Len(delivered[es]) : delivered[es][i] = sDone

\* C6: once the sentinel was delivered to a stream, its connection is
\* closed and not held, nothing more is handed to its onmessage and its
\* placeholder never changes again.
C6_FrozenAfterDone ==
  [][\A es \in 1..Len(sources) :
       DoneSeen(es) =>
         /\ sources[es].readyState = CLOSED
         /\ evtSource # es
         /\ sources' # <<>> =>
              /\ sources'[es].readyState = CLOSED
              /\ delivered'[es] = delivered[es]
              /\ messages'[sources[es].messageIndex].content = Placeholder(es)]_vars

\* C6 witness: a stream got content, then the sentinel, then a late event.
C6_Witness ==
  \E es \in late : DoneSeen(es) /\ Placeholder(es) # <<>> /\ closedBy[es] = "onmessage"

\* C7: an error event, whatever readyState it reports and whether or not a
\* chunk was received, leaves no connection held or open and the busy flag
\* false, and does not change the message list.
C7_ErrorTearsDown ==
  [][\A es \in 1..Len(sources), readyState \in {CONNECTING, OPEN, CLOSED} :
       Error(StreamEnv, es, readyState) =>
         /\ evtSource' = Null
         /\ ~loading'
         /\ \A other \in 1..Len(sources') : sources'[other].readyState = CLOSED
         /\ messages' = messages]_vars

\* C7 witness: an error closed a stream that had received a chunk.
C7_Witness ==
  \E es \in 1..Len(sources) :
    /\ closedBy[es] = "onerror"
    /\ Placeholder(es) # <<>>
    /\ evtSource = Null
    /\ ~loading

\* C8: whatever saveMessages last wrote under a key, loadMessages of that
\* key succeeds and yields the message list that was saved, element by
\* element, and the session id that was saved, which is the key.
C8_SaveLoadRoundTrip ==
  \A k \in Keys :
    saved[k].has =>
      LET loaded == loadMessages(Cur, k)
      IN  /\ loaded.ok
          /\ loaded.s.messages = saved[k].messages
          /\ loaded.s.memoryId = saved[k].memoryId
          /\ saved[k].memoryId = k

\* C8 witness: a second component instance has loaded, at its start, a
\* conversation of a user message and a reply that the first one saved.
C8_Witness ==
  /\ mounts = 2
  /\ phase = "mounted"
  /\ lookup.found
  /\ saved[lookup.id].has
  /\ memoryId = lookup.id
  /\ messages = saved[lookup.id].messages
  /\ Len(messages) >= 3
  /\ messages[Len(messages)].content = sHel

\* The step in which onMounted runs.
MountStep == phase = "created" /\ phase' = "mounted"

\* The session index as onMounted reads it.
IndexRead == parseSessionList(getItemOr(localStorage.sessions, sEmptyList))

\* C9: the lookup of onMounted finds an entry exactly when the index is not
\* empty (an absent index is empty), the entry found is one of the index and
\* no entry has a greater timestamp; for the timestamps 5, 20, 3 it is the
\* entry of timestamp 20.
C9_MostRecent ==
  [][(MountStep /\ IndexRead.ok /\ IndexRead.isArray) =>
       LET list == IndexRead.list
       IN  /\ lookup'.found <=> list # <<>>
           /\ lookup'.found =>
                /\ \E i \in 1..Len(list) :
                     list[i].id = lookup'.id /\ list[i].timestamp = lookup'.timestamp
                /\ \A i \in 1..Len(list) : list[i].timestamp <= lookup'.timestamp
           /\ [i \in 1..Len(list) |-> list[i].timestamp] = <<5, 20, 3>>
                => lookup'.timestamp = 20]_vars

\* C9 witness: the component has started from the index of timestamps 5, 20, 3.
C9_Witness ==
  /\ phase = "mounted"
  /\ mounts = 1
  /\ lookup.found
  /\ lookup.id = 2
  /\ lookup.timestamp = 20
  /\ messages = StoredMessages

\* A stored session body as saveMessages writes it: an object with a
\* messages array and a memoryId.
WellFormed(item) ==
  /\ item.has
  /\ parseChat(item.val).ok
  /\ parseChat(item.val).isObject
  /\ parseChat(item.val).hasMessages
  /\ parseChat(item.val).memoryId # Undefined

\* C10 as claimed, for a start that finds a most recent session: the message
\* list is then the messages of its record when the record is present and
\* well-formed, and otherwise (absent or malformed) the welcome message
\* alone, with the session id untouched.
C10_Original ==
  [][(MountStep /\ lookup'.found) =>
       LET item == localStorage.chat[lookup'.id]
       IN  IF WellFormed(item)
             THEN messages' = parseChat(item.val).messages
           ELSE messages' = <<WelcomeMessage>> /\ memoryId' = memoryId]_vars

\* C11 as claimed: no failure of a read of the store leaves startup: after
\* onMounted the lookup of the recent session has not thrown and the message
\* list is populated, with what was loaded or with the welcome message.
C11_Original == phase = "mounted" => ~lookup.threw /\ messages # <<>>

\* The session index of a store, as the program reads it.
IndexOf(store) == parseSessionList(getItemOr(store.sessions, sEmptyList)).list

\* The ids of the entries of the index of the store.
IndexedIds(store) ==
  LET list == IndexOf(store)
  IN  {list[i].id : i \in 1..Len(list)}

\* The index of the store has an entry of id k.
Indexed(store, k) == k \in IndexedIds(store)

\* The ids the index of the store lists without a session body under their key.
IndexedWithoutBody(store) == {k \in IndexedIds(store) : ~store.chat[k].has}

\* The store holds a session body under the key of k.
HasBody(store, k) == store.chat[k].has

\* C12: no step of the program, a save in which one of the two writes failed
\* included, leaves an id in the session index without a session body under
\* its key, unless the store already held that id without a body: the body
\* is written before the index, and a failed body write ends the save.
C12_IndexedHasBody ==
  [][localStorage' # localStorage =>
       IndexedWithoutBody(localStorage') \subseteq IndexedWithoutBody(localStorage)]_vars

\* C12 witness: the body write of the first save of a session failed; the
\* session is in memory, and neither its body nor an index entry is stored.
C12_Witness ==
  /\ phase = "mounted"
  /\ failures = 1
  /\ messages # <<>>
  /\ ~HasBody(localStorage, memoryId)
  /\ ~Indexed(localStorage, memoryId)

\* C13: a step that opens a stream appends to the message list exactly the
\* user message of the trimmed input and then one empty assistant message,
\* records the position of the latter in the new EventSource, and nothing
\* has been delivered to that EventSource yet; a step that delivers a
\* message event to an EventSource keeps the length of the list and changes
\* no message other than the one at the position that EventSource recorded.
C13_SubmitThenChunks ==
  [][/\ Len(sources') > Len(sources) =>
          LET es == Len(sources')
          IN  /\ es = Len(sources) + 1
              /\ sources'[es].message = trim(inputText)
              /\ messages' = messages \o <<[role |-> sUser, content |-> trim(inputText)],
                                           [role |-> sAssistant, content |-> <<>>]>>
              /\ sources'[es].messageIndex = Len(messages')
              /\ delivered'[es] = <<>>
     /\ \A es \in 1..Len(sources) :
          delivered'[es] # delivered[es] =>
            /\ Len(messages') = Len(messages)
            /\ \A p \in 1..Len(messages) :
                 p # sources[es].messageIndex => messages'[p] = messages[p]
            /\ messages'[sources[es].messageIndex].role = sAssistant]_vars

\* C13 witness: the stream of a second submit has received a chunk; the list
\* is the welcome message and two pairs of user message and placeholder.
C13_Witness ==
  /\ Len(sources) = 2
  /\ Len(messages) = 5
  /\ sources[2].messageIndex = 5
  /\ messages[4] = [role |-> sUser, content |-> sHi]
  /\ delivered[2] # <<>>
  /\ messages[5].content = sHel

\* a is a prefix of b.
IsPrefix(a, b) == Len(a) <= Len(b) /\ SubSeq(b, 1, Len(a)) = a

\* An EventSource that recorded position p is open and is the one held.
OwnerOpen(p) ==
  \E es \in 1..Len(sources) :
    /\ sources[es].messageIndex = p
    /\ sources[es].readyState = OPEN
    /\ evtSource = es

\* C14: when a step changes the content of a message, the message is an
\* assistant placeholder, not the welcome message at the head of the list,
\* the stream that recorded its position is open, and the old content is a
\* prefix of the new one; so the content of a message whose stream is
\* closed, of a user message and of the welcome message never changes.
C14_AppendOnlyContent ==
  [][\A p \in 1..Len(messages) :
       (p <= Len(messages') /\ messages'[p].content # messages[p].content) =>
         /\ messages[p].role = sAssistant
         /\ p > 1
         /\ OwnerOpen(p)
         /\ IsPrefix(messages[p].content, messages'[p].content)]_vars

\* C14 witness: a placeholder grew by two chunks, its stream then failed,
\* and an event that came for the stream afterwards was dropped.
C14_Witness ==
  \E es \in late :
    /\ closedBy[es] = "onerror"
    /\ Cardinality(Contents(delivered[es])) = 2
    /\ IsPrefix(delivered[es][1], Placeholder(es))
    /\ Len(Placeholder(es)) > Len(delivered[es][1])

\* C15: once the component is mounted, no step (submit, chunk, sentinel,
\* error, teardown, each with the save that follows it) shortens the message
\* list or changes the role of a message at a position it already had: the
\* list before the step is, position by position and role by role, a prefix
\* of the list after it.
C15_ListAppendOnly ==
  [][phase = "mounted" =>
       /\ Len(messages') >= Len(messages)
       /\ \A p \in 1..Len(messages) : messages'[p].role = messages[p].role]_vars

\* C15 witness: two submits, the stream of the first failed, the stream of
\* the second got the sentinel, then the component was torn down; the list
\* still is welcome, user, assistant, user, assistant.
C15_Witness ==
  /\ phase = "unmounted"
  /\ Len(sources) = 2
  /\ closedBy[1] = "onerror"
  /\ closedBy[2] = "onmessage"
  /\ [p \in 1..Len(messages) |-> messages[p].role]
       = <<sAssistant, sUser, sAssistant, sUser, sAssistant>>

\* The body stored in `store` for session id holds the message list msgs
\* and the session id.
RecordHolds(store, id, msgs) ==
  LET record == parseChat(store.chat[id].val)
  IN  /\ store.chat[id].has
      /\ record.ok
      /\ record.hasMessages
      /\ record.messages = msgs
      /\ record.memoryId = id

\* The body stored for the current session holds the message list and the
\* session id the component has in memory.
RecordIsCurrent == RecordHolds(localStorage, memoryId, messages)

\* C16: as long as no write to the store has failed, whenever a handler has
\* returned and the watcher of the message list has run, a non-empty
\* message list is the one stored in the body of the current session:
\* every change of the list (welcome, load, submit, chunk) was followed by
\* a save, and no save left an older list behind.
C16_SavedIsCurrent ==
  (phase # "created" /\ messages # <<>> /\ failures = 0) => RecordIsCurrent

\* C16 witness: after the welcome message, a submit and a chunk, with no
\* write failed, the stored body ends with the placeholder holding the chunk.
C16_Witness ==
  /\ phase = "mounted"
  /\ failures = 0
  /\ evtSource # Null
  /\ delivered[evtSource] = <<sHel>>
  /\ RecordIsCurrent
  /\ messages[Len(messages)].content = sHel

\* The step in which onUnmounted runs.
UnmountStep == phase = "mounted" /\ phase' = "unmounted"

\* C17: teardown, from every state of a mounted component, leaves no
\* connection held or open and the busy flag false, keeps the message list
\* and the session id, and, when the list is not empty and neither write of
\* its save fails, leaves the list in the stored body of the current
\* session, whatever earlier saves did.
C17_TeardownClosesAndSaves ==
  [][UnmountStep =>
       /\ evtSource' = Null
       /\ ~loading'
       /\ \A es \in 1..Len(sources') : sources'[es].readyState = CLOSED
       /\ messages' = messages
       /\ memoryId' = memoryId
       /\ (messages # <<>> /\ failures' = failures)
            => RecordHolds(localStorage', memoryId', messages')]_vars

\* C17 witness: the component was torn down while a stream that had got a
\* chunk was open; a write of an earlier save had failed, and the stored
\* body holds the list as it was at teardown.
C17_Witness ==
  /\ phase = "unmounted"
  /\ failures = 1
  /\ Len(sources) = 1
  /\ closedBy[1] = "onUnmounted"
  /\ delivered[1] = <<sHel>>
  /\ RecordIsCurrent
  /\ Indexed(localStorage, memoryId)

\* C18: closeStream, called in any reachable state with the loading flag
\* either way, returns a state with no connection held, no connection open
\* and loading false; calling it again changes nothing; and it leaves the
\* message list and the session id as they were.
C18_CloseIdempotent ==
  \A busy \in BOOLEAN :
    LET S == [Cur EXCEPT !.loading = busy]
        closed == closeStream(S)
    IN  /\ closed.evtSource = Null
        /\ ~closed.loading
        /\ \A es \in 1..Len(closed.sources) : closed.sources[es].readyState = CLOSED
        /\ closeStream(closed) = closed
        /\ closed.messages = messages
        /\ closed.memoryId = memoryId

\* C18 witness: closeStream has closed one stream on its sentinel, and an
\* open stream with a chunk in its placeholder is held, which a call of
\* closeStream would close.
C18_Witness ==
  /\ Len(sources) = 2
  /\ closedBy[1] = "onmessage"
  /\ evtSource = 2
  /\ sources[2].readyState = OPEN
  /\ Placeholder(2) # <<>>
  /\ closeStream(Cur) # Cur

\* C19: a call of smartConcat with an empty first argument returns the
\* second argument, and a call with an empty second argument returns the
\* first.
C19_MergeIdentity ==
  call.returned =>
    /\ call.currentContent = <<>> => call.result = call.newChunk
    /\ call.newChunk = <<>> => call.result = call.currentContent

\* C19 witness: smartConcat has returned 'hello' for ('hello', '').
C19_Witness ==
  /\ call.returned
  /\ call.currentContent = sHelloWord
  /\ call.newChunk = <<>>
  /\ call.result = sHelloWord

\* The classes of C20: a letter or digit of the Latin script, a Chinese
\* character (U+4E00 to U+9FA5).
IsLatinAlphanumeric(c) == c \in (48..57) \cup (65..90) \cup (97..122)
IsCJK(c) == c \in 19968..40869

\* The code units on the two sides of the seam of a call.
LastOfAccumulated == call.currentContent[Len(call.currentContent)]
FirstOfChunk == call.newChunk[1]

IsSeparator(c) ==
  \/ IsSpace(c)
  \/ c \in {46, 44, 33, 63, 59, 58, 45, 95, 65292, 12290, 65281, 65311, 65307, 65306}

\* C21: for arguments that are both non-empty, when the last unit of the
\* first or the first unit of the second is white space or punctuation,
\* smartConcat returns the two with nothing between them; 'hi ' with
\* 'there' and 'hi' with ' there' both give 'hi there'.
C21_NoSecondSeparator ==
  (call.returned /\ call.currentContent # <<>> /\ call.newChunk # <<>>) =>
    /\ (IsSeparator(LastOfAccumulated) \/ IsSeparator(FirstOfChunk))
         => call.result = call.currentContent \o call.newChunk
    /\ (call.currentContent = sHiSpace /\ call.newChunk = sThere)
         => call.result = sHiThere
    /\ (call.currentContent = sHi /\ call.newChunk = sSpaceThere)
         => call.result = sHiThere

\* C21 witness: smartConcat has returned 'hi there' for ('hi ', 'there'),
\* two letters around a space that is already there.
C21_Witness ==
  /\ call.returned
  /\ call.currentContent = sHiSpace
  /\ call.newChunk = sThere
  /\ call.result = sHiThere

\* C22: a step that hands onmessage an empty payload, 'ping' or 'keepalive'
\* changes neither the message list (so not the placeholder), nor the
\* EventSource objects and the one held, nor the loading flag.
C22_HeartbeatChangesNothing ==
  [][\A es \in 1..Len(sources) :
       (/\ Len(delivered') = Len(delivered)
        /\ delivered'[es] # delivered[es]
        /\ delivered'[es][Len(delivered'[es])] \in {<<>>, sPing, sKeepalive})
         => UNCHANGED <<messages, sources, evtSource, loading>>]_vars

\* C22 witness: a stream got a chunk, then 'keepalive' and 'ping'; it is
\* still open and held, and its placeholder holds the chunk.
C22_Witness ==
  /\ Len(sources) = 1
  /\ delivered[1] = <<sHel, sKeepalive, sPing>>
  /\ evtSource = 1
  /\ sources[1].readyState = OPEN
  /\ messages[sources[1].messageIndex].content = sHel

\* A letter of the Latin script.
IsLatinLetter(c) == c \in (65..90) \cup (97..122)

\* A unit under none of the rules for Chinese characters, Latin letters and
\* white space or punctuation: a digit or a symbol.
IsDigitOrSymbol(c) == ~IsCJK(c) /\ ~IsLatinLetter(c) /\ ~IsSeparator(c)

\* C23 as claimed: for arguments that are both non-empty, when the last unit
\* of the first and the first unit of the second are each a digit or a
\* symbol, smartConcat returns the two with nothing between them.
C23_Original ==
  (/\ call.returned
   /\ call.currentContent # <<>>
   /\ call.newChunk # <<>>
   /\ IsDigitOrSymbol(LastOfAccumulated)
   /\ IsDigitOrSymbol(FirstOfChunk))
    => call.result = call.currentContent \o call.newChunk

\* C24: when a component whose message list was not empty has been torn
\* down, neither write of the save of onUnmounted failed and the session
\* index is readable, the onMounted of the next component instance on the
\* same store ends with the session id and the message list of the
\* teardown: the session saved last is the most recent of the index.
C24_RestartRoundTrip ==
  [][(/\ MountStep
      /\ teardown.has
      /\ teardown.messages # <<>>
      /\ ~teardown.failed
      /\ IndexRead.ok
      /\ IndexRead.isArray) =>
       /\ lookup'.found
       /\ lookup'.id = teardown.memoryId
       /\ memoryId' = teardown.memoryId
       /\ messages' = teardown.messages]_vars

\* C24 witness: a second component instance has started with the session of
\* the first, which was torn down after a submit and a chunk.
C24_Witness ==
  /\ mounts = 2
  /\ phase = "mounted"
  /\ teardown.has
  /\ ~teardown.failed
  /\ Len(teardown.messages) >= 3
  /\ teardown.messages[Len(teardown.messages)].content = sHel
  /\ memoryId = teardown.memoryId
  /\ messages = teardown.messages

\* No two entries of the list have the same id.
UniqueIds(list) ==
  \A i, j \in 1..Len(list) : list[i].id = list[j].id => i = j

\* The entry of session id in the list carries the content of the last of
\* msgs as lastMessage and a timestamp no entry of the list exceeds.
EntryIsLatest(list, id, msgs) ==
  LET i == findSession(list, id, 1)
  IN  /\ i # 0
      /\ list[i].lastMessage = msgs[Len(msgs)].content
      /\ \A j \in 1..Len(list) : list[j].timestamp <= list[i].timestamp

\* C25: after every step in which a save wrote the session index, the index
\* has at most one entry per session id (as it had before any save), and
\* the entry of the current session has the content of the last message of
\* the list as lastMessage and a timestamp not older than that of any other
\* entry.
C25_SaveUpserts ==
  [][localStorage'.sessions # localStorage.sessions =>
       \A list \in {IndexOf(localStorage')} :
         UniqueIds(list) /\ EntryIsLatest(list, memoryId', messages')]_vars

\* C25 witness: the session of timestamp 20, of the index of three sessions,
\* was loaded and continued; its entry was updated in place, with the chunk
\* received as lastMessage and the time of the save.
C25_Witness ==
  LET list == IndexOf(localStorage)
  IN  /\ phase = "mounted"
      /\ Len(list) = 3
      /\ memoryId = 2
      /\ list[2].id = 2
      /\ list[2].lastMessage = sHel
      /\ list[2].timestamp >= InitialClock
      /\ messages[Len(messages)].content = sHel

\* The sentinel or an error event comes for es: it is handed to the handlers
\* of es, or the browser drops it because es is closed.
SentinelOrErrorFor(es) ==
  \/ Message(StreamEnv, es, sDone)
  \/ \E readyState \in {CONNECTING, OPEN, CLOSED} : Error(StreamEnv, es, readyState)
  \/ LateEvent(es)

\* C26: a sentinel or an error event that comes for an EventSource other
\* than the one held (one that was superseded by a later submit or closed)
\* changes neither the connection held, nor the state of any connection,
\* nor the loading flag, nor the message list.
C26_StaleEventsHarmless ==
  [][\A es \in 1..Len(sources) :
       (es # evtSource /\ SentinelOrErrorFor(es))
         => UNCHANGED <<evtSource, sources, loading, messages>>]_vars

\* C26 witness: an event came for the stream of the first submit after the
\* second submit had superseded it; the stream of the second is open and
\* held, and its placeholder holds the chunk it received.
C26_Witness ==
  /\ Len(sources) = 2
  /\ closedBy[1] = "openStream"
  /\ 1 \in late
  /\ evtSource = 2
  /\ sources[2].readyState = OPEN
  /\ delivered[2] = <<sHel>>
  /\ messages[sources[2].messageIndex].content = sHel

\* C27: the position recorded by every EventSource that is not closed is a
\* position of the message list, and the message there is an assistant
\* message; so onmessage, which runs only for such an EventSource, never
\* takes the branch of the invalid index.
C27_PlaceholderIndexValid ==
  \A es \in OpenSources :
    /\ sources[es].messageIndex \in 1..Len(messages)
    /\ messages[sources[es].messageIndex].role = sAssistant

\* C27 witness: the stream of a second submit is open after the first ended
\* on its sentinel; the position it recorded is the last of five messages.
C27_Witness ==
  /\ Len(sources) = 2
  /\ closedBy[1] = "onmessage"
  /\ OpenSources = {2}
  /\ sources[2].readyState = OPEN
  /\ sources[2].messageIndex = 5
  /\ Len(messages) = 5
  /\ messages[5].role = sAssistant

====
